---- MODULE Spec2Model ----
(***************************************************************************)
(* Model of scripts/fetch.py: the provider pipeline (fetch_provider), the  *)
(* chunk partitioner (write_chunks) and the orchestrating loop (main).     *)
(*                                                                         *)
(* A CIDR string is a sequence of character code points, so that Python's  *)
(* str ordering (code point by code point, a proper prefix first) is       *)
(* computed and not assumed.  The disk is a function from the paths that   *)
(* exist to the lines they hold.  fetch_url and the adapters are the       *)
(* environment: what they deliver (a list of CIDR strings, a URLError, a   *)
(* JSONDecodeError) is chosen nondeterministically, and so is the open()   *)
(* or mkdir() call that raises OSError, if any.                            *)
(***************************************************************************)
EXTENDS Integers, Sequences, FiniteSets, TLC

VARIABLES
    files,              \* the disk: path -> sequence of lines
    pc,                 \* position of the process: "idle", "loop", "exited"
    args,               \* the parsed command line of the current invocation
    providers_to_fetch, \* main: the list the loop iterates over
    chunk,              \* main: not args.no_chunk
    idx,                \* main: 1-based position of the for loop
    success_count,      \* main
    total_cidrs,        \* main
    exit_code,          \* status passed to sys.exit, -1 while running
    attempts,           \* history: fetch_provider calls of this invocation
    latest,             \* history: per provider, how its latest call ended
    call,               \* history: the most recent fetch_provider/write_chunks call
    input               \* direct-call harness: the arguments under test

vars == <<files, pc, args, providers_to_fetch, chunk, idx, success_count,
          total_cidrs, exit_code, attempts, latest, call, input>>

(***************************************************************************)
(* Bounds of the model.                                                    *)
(***************************************************************************)
\* CHUNK_SIZE is 2000 in the source; the model scales it down so that
\* several chunks arise from short lists.  Every formula is stated in terms
\* of CHUNK_SIZE, never of its value.
CHUNK_SIZE == 2
\* longest adapter output delivered to fetch_provider
MaxFeedLen == 3
\* longest list handed directly to write_chunks
MaxChunkInput == 5
\* most positional arguments on one command line
MaxArgs == 2

(***************************************************************************)
(* CIDR strings, as code points: "1/8", "10/8", "2/8".  In str order       *)
(* "1/8" < "10/8" < "2/8" ('/' is 47, '0' is 48), which is not the order   *)
(* of the addresses' lengths nor of their text lengths.                    *)
(***************************************************************************)
CIDRS == { <<49, 47, 56>>, <<49, 48, 47, 56>>, <<50, 47, 56>> }

RECURSIVE SeqsUpTo(_, _)
SeqsUpTo(S, n) ==
    IF n = 0 THEN { <<>> }
    ELSE LET shorter == SeqsUpTo(S, n - 1)
         IN  shorter \cup { Append(s, x) : s \in shorter, x \in S }

Min(a, b) == IF a <= b THEN a ELSE b

\* a mutant of str_lt: shorter strings first, then code points
RECURSIVE str_lt_shortlex(_, _)
str_lt_shortlex(a, b) ==
    IF Len(a) # Len(b) THEN Len(a) < Len(b)
    ELSE IF a = <<>> THEN FALSE
    ELSE IF Head(a) # Head(b) THEN Head(a) < Head(b)
    ELSE str_lt_shortlex(Tail(a), Tail(b))

\* Python's str.__lt__, which sorted() uses on the CIDR strings
RECURSIVE str_lt(_, _)
str_lt(a, b) ==
    IF a = <<>> THEN b # <<>>
    ELSE IF b = <<>> THEN FALSE
    ELSE IF Head(a) # Head(b) THEN Head(a) < Head(b)
    ELSE str_lt(Tail(a), Tail(b))

\* set(cidrs)
set(cidrs) == { cidrs[i] : i \in 1..Len(cidrs) }

\* sorted(s) for a set s of strings: ascending by str_lt
RECURSIVE sorted(_)
sorted(s) ==
    IF s = {} THEN <<>>
    ELSE LET m == CHOOSE x \in s : \A y \in s \ {x} : str_lt(x, y)
         IN  <<m>> \o sorted(s \ {m})

(***************************************************************************)
(* The registry, restricted to two of its six entries: one provider with   *)
(* the JSON adapter and one with a line adapter.  PROVIDER_KEYS is the     *)
(* insertion order list(PROVIDERS.keys()) yields.                          *)
(***************************************************************************)
PROVIDER_KEYS == << "aws", "tor" >>

PROVIDERS ==
    [ aws |-> [ parser |-> "aws_json", output |-> "lists/providers/aws.txt" ],
      tor |-> [ parser |-> "tor_exit", output |-> "lists/providers/tor-exit-nodes.txt" ] ]

\* a name of MANUAL_PROVIDERS, unknown to PROVIDERS
MANUAL_NAME == "hetzner"

(***************************************************************************)
(* Paths.  A path is <<directory, file name stem, part number>>; the       *)
(* canonical output has part number 0.                                     *)
(***************************************************************************)
OutputPath(name) == << "providers", PROVIDERS[name].output, 0 >>

ChunkFile(provider_name, chunk_num) == << "chunks", provider_name, chunk_num >>

\* with open(path, 'w') as f: for cidr in lines: f.write(...)
WriteFile(fs, path, lines) ==
    [ p \in (DOMAIN fs) \cup {path} |-> IF p = path THEN lines ELSE fs[p] ]

\* cidrs[i:j] of Python, 0-based and clamped to the list
Slice(cidrs, i, j) == SubSeq(cidrs, i + 1, Min(j, Len(cidrs)))

(***************************************************************************)
(* write_chunks.  fs is the disk before the call.  fail names the write of *)
(* this call (1 = the first open) that raises OSError, 0 for none; the     *)
(* failing open leaves the disk as it was.  The result holds the disk      *)
(* after the call, the value returned (-1 when the exception propagates    *)
(* instead), and the paths the call wrote.                                 *)
(***************************************************************************)
\* a mutant of chunk_slice: the slice ends one entry early
chunk_slice_short(cidrs, i) == Slice(cidrs, i, i + CHUNK_SIZE - 1)

\* chunk_cidrs = cidrs[i:i + CHUNK_SIZE]
chunk_slice(cidrs, i) == Slice(cidrs, i, i + CHUNK_SIZE)

\* a mutant of chunk_number: parts are numbered from 0
chunk_number_from_zero(i) == i \div CHUNK_SIZE

\* chunk_num = (i // CHUNK_SIZE) + 1
chunk_number(i) == (i \div CHUNK_SIZE) + 1

\* the loop of the multi-chunk branch, st.i being the loop variable i
RECURSIVE chunk_loop(_, _, _, _, _)
chunk_loop(cidrs, provider_name, dry, fail, st) ==
    IF st.i >= Len(cidrs) THEN st
    ELSE LET chunk_cidrs == chunk_slice(cidrs, st.i)
             chunk_num   == chunk_number(st.i)
             chunk_file  == ChunkFile(provider_name, chunk_num)
         IN  IF dry
             THEN chunk_loop(cidrs, provider_name, dry, fail,
                      [ st EXCEPT !.i = @ + CHUNK_SIZE, !.chunk_files = @ + 1 ])
             ELSE IF fail = st.chunk_files + 1
             THEN [ st EXCEPT !.raised = TRUE ]
             ELSE chunk_loop(cidrs, provider_name, dry, fail,
                      [ st EXCEPT !.files = WriteFile(@, chunk_file, chunk_cidrs),
                                  !.wrote = @ \cup {chunk_file},
                                  !.i = @ + CHUNK_SIZE,
                                  !.chunk_files = @ + 1 ])

write_chunks(cidrs, provider_name, dry, fs, fail) ==
    IF Len(cidrs) <= CHUNK_SIZE
    THEN LET chunk_file == ChunkFile(provider_name, 1)
         IN  IF dry
             THEN [ files |-> fs, wrote |-> {}, raised |-> FALSE, ret |-> 1 ]
             ELSE IF fail = 1
             THEN [ files |-> fs, wrote |-> {}, raised |-> TRUE, ret |-> -1 ]
             ELSE [ files |-> WriteFile(fs, chunk_file, cidrs),
                    wrote |-> {chunk_file}, raised |-> FALSE, ret |-> 1 ]
    ELSE LET st == chunk_loop(cidrs, provider_name, dry, fail,
                       [ files |-> fs, wrote |-> {}, i |-> 0, chunk_files |-> 0,
                         raised |-> FALSE ])
         IN  [ files |-> st.files, wrote |-> st.wrote, raised |-> st.raised,
               ret |-> IF st.raised THEN -1 ELSE st.chunk_files ]

(***************************************************************************)
(* fetch_provider.  feed is what fetch_url and the adapter deliver:        *)
(* [kind |-> "ok", cidrs |-> the adapter's list] or a kind naming the      *)
(* exception raised.  fail names the write of this call that raises        *)
(* OSError (1 = the canonical file, 1 + k = the k-th chunk), 0 for none.   *)
(* The result holds the disk after the call, the returned pair             *)
(* (success, count), the branch that returned, and the paths written.      *)
(***************************************************************************)
Failed(fs, why, wrote) ==
    [ files |-> fs, success |-> FALSE, count |-> 0, reason |-> why, wrote |-> wrote ]

\* cidrs = sorted(set(cidrs))
normalize(cidrs) == sorted(set(cidrs))

\* a mutant of is_empty: the emptiness check is missing
is_empty_never(cidrs) == FALSE

\* if not cidrs
is_empty(cidrs) == cidrs = <<>>

\* a mutant of dry_chunks: dry_run=True is not passed on, the default is False
dry_chunks_default_flag(cidrs, name, fs) == write_chunks(cidrs, name, FALSE, fs, 0)

\* write_chunks(cidrs, name, dry_run=True)
dry_chunks(cidrs, name, fs) == write_chunks(cidrs, name, TRUE, fs, 0)

\* a mutant of fetch_dry: the dry run reports the number of chunk files
fetch_dry_counts_chunks(name, chunking, fs, cidrs) ==
    [ files |-> fs, success |-> TRUE,
      count |-> write_chunks(cidrs, name, TRUE, fs, 0).ret,
      reason |-> "ok", wrote |-> {} ]

\* the dry_run branch and the return that follows it
fetch_dry(name, chunking, fs, cidrs) ==
    LET wc == IF chunking THEN dry_chunks(cidrs, name, fs)
              ELSE [ files |-> fs, wrote |-> {}, raised |-> FALSE, ret |-> 0 ]
    IN  [ files |-> wc.files, success |-> TRUE, count |-> Len(cidrs),
          reason |-> "ok", wrote |-> wc.wrote ]

\* the live branch, the return that follows it, and `except Exception`
fetch_live(name, chunking, fs, cidrs, fail) ==
    LET output_path == OutputPath(name)
    IN  IF fail = 1 THEN Failed(fs, "OSError", {})
        ELSE LET fs1 == WriteFile(fs, output_path, cidrs)
                 wc  == IF chunking
                        THEN write_chunks(cidrs, name, FALSE, fs1,
                                 IF fail > 1 THEN fail - 1 ELSE 0)
                        ELSE [ files |-> fs1, wrote |-> {}, raised |-> FALSE,
                               ret |-> 0 ]
             IN  IF wc.raised
                 THEN Failed(wc.files, "OSError", {output_path} \cup wc.wrote)
                 ELSE [ files |-> wc.files, success |-> TRUE,
                        count |-> Len(cidrs), reason |-> "ok",
                        wrote |-> {output_path} \cup wc.wrote ]

fetch_provider(name, dry, chunking, fs, feed, fail) ==
    IF name \notin DOMAIN PROVIDERS THEN Failed(fs, "unknown", {})
    ELSE IF feed.kind = "URLError" THEN Failed(fs, "URLError", {})
    ELSE IF feed.kind = "JSONDecodeError" THEN Failed(fs, "JSONDecodeError", {})
    ELSE IF is_empty(feed.cidrs) THEN Failed(fs, "empty", {})
    ELSE LET cidrs == normalize(feed.cidrs)
         IN  IF dry THEN fetch_dry(name, chunking, fs, cidrs)
             ELSE fetch_live(name, chunking, fs, cidrs, fail)

(***************************************************************************)
(* What the environment can deliver to one fetch_provider call.            *)
(***************************************************************************)
Feed(kind, cidrs) == [ kind |-> kind, cidrs |-> cidrs ]

\* json.loads is reached by the aws_json adapter only
FeedsOf(name, lists) ==
    { Feed("ok", c) : c \in lists }
        \cup { Feed("URLError", <<>>) }
        \cup ( IF name \in DOMAIN PROVIDERS /\ PROVIDERS[name].parser = "aws_json"
               THEN { Feed("JSONDecodeError", <<>>) } ELSE {} )

\* the adapter outputs the program is run on
FeedLists == SeqsUpTo(CIDRS, MaxFeedLen)

\* the writes of one call that can be made to fail: none, or the k-th; a
\* dry run opens no file, so none of its writes can fail
Fails(dry, maxlen) ==
    IF dry THEN {0} ELSE 0 .. (1 + (maxlen + CHUNK_SIZE - 1) \div CHUNK_SIZE)

(***************************************************************************)
(* State shared by the program and the direct-call harnesses.              *)
(***************************************************************************)
NoArgs == [ dry_run |-> FALSE, list |-> FALSE, no_chunk |-> FALSE ]

NoCall == [ op |-> "none", name |-> "", dry_run |-> FALSE, success |-> FALSE,
            ret |-> 0, reason |-> "", raised |-> FALSE, wrote |-> {},
            changed |-> FALSE ]

NoInput == [ name |-> "", chunk |-> FALSE, dry_run |-> FALSE, feed |-> Feed("ok", <<>>) ]

EmptyDisk == [ p \in {} |-> <<>> ]

\* one fetch_provider call as the history keeps it: the name, the mode, what
\* the environment delivered (its kind and its number of distinct entries),
\* and what the call returned
Attempt(name, dry, feed, r) ==
    [ name |-> name, dry_run |-> dry, kind |-> feed.kind,
      n |-> Cardinality(set(feed.cidrs)),
      success |-> r.success, count |-> r.count, reason |-> r.reason ]

\* the most recent call as the history keeps it: what it returned, the paths
\* it opened for writing, and whether the disk after it differs from before
FetchCall(name, dry, r, fs) ==
    [ op |-> "fetch_provider", name |-> name, dry_run |-> dry,
      success |-> r.success, ret |-> r.count, reason |-> r.reason,
      raised |-> FALSE, wrote |-> r.wrote, changed |-> (r.files # fs) ]

ChunksCall(name, dry, wc, fs) ==
    [ op |-> "write_chunks", name |-> name, dry_run |-> dry,
      success |-> FALSE, ret |-> wc.ret, reason |-> "",
      raised |-> wc.raised, wrote |-> wc.wrote, changed |-> (wc.files # fs) ]

\* how the latest call for a provider ended, as far as its chunks go
Latest(dry, chunking, r) ==
    IF r.success /\ ~dry /\ chunking THEN "chunked"
    ELSE IF r.success /\ ~dry THEN "written"
    ELSE IF r.success THEN "dry"
    ELSE "failed"

(***************************************************************************)
(* main.                                                                   *)
(***************************************************************************)
\* the positional arguments: provider names and 'all', at least one
ArgLists == SeqsUpTo({"aws", "tor", "all"}, MaxArgs) \ { <<>> }

\* a mutant of ExitStatus: one success is enough
ExitStatus_any(count, requested) == IF count > 0 THEN 0 ELSE 1

\* sys.exit(0 if success_count == len(providers_to_fetch) else 1)
ExitStatus(count, requested) == IF count = Len(requested) THEN 0 ELSE 1

\* a mutant of NextIndex: the loop is left at the first failure
NextIndex_break(i, success, requested) == IF success THEN i + 1 ELSE Len(requested) + 1

\* for name in providers_to_fetch: the position after this iteration
NextIndex(i, success, requested) == i + 1

\* if success: total_cidrs += count
Accumulate(total, success, count) == IF success THEN total + count ELSE total

\* The disk an invocation starts on: empty, or as an earlier invocation for
\* one provider (live, with chunking, no write failing) left it.
PriorRuns ==
    { [ name |-> "", files |-> EmptyDisk ] }
        \cup { [ name |-> p,
                 files |-> fetch_provider(p, FALSE, TRUE, EmptyDisk, Feed("ok", c), 0).files ]
               : p \in DOMAIN PROVIDERS, c \in { sorted(s) : s \in (SUBSET CIDRS) \ {{}} } }

Init ==
    /\ \E prior \in PriorRuns :
           /\ files = prior.files
           /\ latest = [ p \in DOMAIN PROVIDERS |->
                            IF p = prior.name THEN "chunked" ELSE "none" ]
    /\ pc = "idle"
    /\ args = NoArgs
    /\ providers_to_fetch = <<>>
    /\ chunk = TRUE
    /\ idx = 1
    /\ success_count = 0
    /\ total_cidrs = 0
    /\ exit_code = -1
    /\ attempts = <<>>
    /\ call = NoCall
    /\ input = NoInput

\* an invocation with --list: print the registry, sys.exit(0)
main_list ==
    /\ pc = "idle"
    /\ \E d \in BOOLEAN, nc \in BOOLEAN :
           args' = [ dry_run |-> d, list |-> TRUE, no_chunk |-> nc ]
    /\ pc' = "exited"
    /\ exit_code' = 0
    /\ UNCHANGED <<files, providers_to_fetch, chunk, idx, success_count,
                   total_cidrs, attempts, latest, call, input>>

\* an invocation without --list, up to the head of the for loop
main_start ==
    /\ pc = "idle"
    /\ \E a \in ArgLists, d \in BOOLEAN, nc \in BOOLEAN :
           /\ args' = [ dry_run |-> d, list |-> FALSE, no_chunk |-> nc ]
           /\ providers_to_fetch' = IF "all" \in set(a) THEN PROVIDER_KEYS ELSE a
           /\ chunk' = ~nc
    /\ success_count' = 0
    /\ total_cidrs' = 0
    /\ idx' = 1
    /\ attempts' = <<>>
    /\ exit_code' = -1
    /\ pc' = "loop"
    /\ UNCHANGED <<files, latest, call, input>>

\* one iteration of the for loop: fetch_provider and the two counters
main_loop ==
    /\ pc = "loop"
    /\ idx <= Len(providers_to_fetch)
    /\ LET name == providers_to_fetch[idx]
       IN  \E feed \in FeedsOf(name, FeedLists), fail \in Fails(args.dry_run, MaxFeedLen) :
               LET r == fetch_provider(name, args.dry_run, chunk, files, feed, fail)
               IN  /\ files' = r.files
                   /\ success_count' = IF r.success THEN success_count + 1
                                       ELSE success_count
                   /\ total_cidrs' = Accumulate(total_cidrs, r.success, r.count)
                   /\ idx' = NextIndex(idx, r.success, providers_to_fetch)
                   /\ attempts' = Append(attempts,
                                         Attempt(name, args.dry_run, feed, r))
                   /\ latest' = [ latest EXCEPT ![name] = Latest(args.dry_run, chunk, r) ]
                   /\ call' = FetchCall(name, args.dry_run, r, files)
    /\ UNCHANGED <<pc, args, providers_to_fetch, chunk, exit_code, input>>

\* the summary and sys.exit
main_summary ==
    /\ pc = "loop"
    /\ idx > Len(providers_to_fetch)
    /\ exit_code' = ExitStatus(success_count, providers_to_fetch)
    /\ pc' = "exited"
    /\ UNCHANGED <<files, args, providers_to_fetch, chunk, idx, success_count,
                   total_cidrs, attempts, latest, call, input>>

Next == main_list \/ main_start \/ main_loop \/ main_summary

Spec == Init /\ [][Next]_vars

\* the process is sequential and every fetch is bounded by its timeout:
\* a started invocation keeps taking its steps
FairSpec == Spec /\ WF_vars(main_loop) /\ WF_vars(main_summary)

(***************************************************************************)
(* fetch_provider called directly: once in dry-run mode and once live, in  *)
(* either order, on the same name, chunk flag and fetched input.           *)
(***************************************************************************)
FetchInputs ==
    { [ name |-> nm, chunk |-> c, dry_run |-> FALSE, feed |-> f ]
      : nm \in (DOMAIN PROVIDERS) \cup {MANUAL_NAME}, c \in BOOLEAN,
        f \in FeedsOf("aws", FeedLists) }

InitFetch ==
    /\ files = EmptyDisk
    /\ latest = [ p \in DOMAIN PROVIDERS |-> "none" ]
    /\ pc = "direct"
    /\ args = NoArgs
    /\ providers_to_fetch = <<>>
    /\ chunk = TRUE
    /\ idx = 1
    /\ success_count = 0
    /\ total_cidrs = 0
    /\ exit_code = -1
    /\ attempts = <<>>
    /\ call = NoCall
    /\ input \in { i \in FetchInputs : i.feed \in FeedsOf(i.name, FeedLists) }

direct_fetch(dry) ==
    /\ pc = "direct"
    /\ \A i \in DOMAIN attempts : attempts[i].dry_run # dry
    /\ \E fail \in Fails(dry, MaxFeedLen) :
           LET r == fetch_provider(input.name, dry, input.chunk, files, input.feed, fail)
           IN  /\ files' = r.files
               /\ attempts' = Append(attempts, Attempt(input.name, dry, input.feed, r))
               /\ call' = FetchCall(input.name, dry, r, files)
    /\ UNCHANGED <<pc, args, providers_to_fetch, chunk, idx, success_count,
                   total_cidrs, exit_code, latest, input>>

direct_fetch_dry == direct_fetch(TRUE)

direct_fetch_live == direct_fetch(FALSE)

NextFetch == direct_fetch_dry \/ direct_fetch_live

SpecFetch == InitFetch /\ [][NextFetch]_vars

(***************************************************************************)
(* write_chunks called directly on any list, the empty one included.       *)
(***************************************************************************)
ChunkLists == SeqsUpTo(CIDRS, MaxChunkInput)

InitChunks ==
    /\ files = EmptyDisk
    /\ latest = [ p \in DOMAIN PROVIDERS |-> "none" ]
    /\ pc = "direct"
    /\ args = NoArgs
    /\ providers_to_fetch = <<>>
    /\ chunk = TRUE
    /\ idx = 1
    /\ success_count = 0
    /\ total_cidrs = 0
    /\ exit_code = -1
    /\ attempts = <<>>
    /\ call = NoCall
    /\ input \in { [ name |-> nm, chunk |-> TRUE, dry_run |-> d, feed |-> Feed("ok", c) ]
                   : nm \in DOMAIN PROVIDERS, d \in BOOLEAN, c \in ChunkLists }

direct_write_chunks ==
    /\ pc = "direct"
    /\ call.op = "none"
    /\ \E fail \in Fails(input.dry_run, MaxChunkInput) :
           LET wc == write_chunks(input.feed.cidrs, input.name, input.dry_run, files, fail)
           IN  /\ files' = wc.files
               /\ call' = ChunksCall(input.name, input.dry_run, wc, files)
    /\ UNCHANGED <<pc, args, providers_to_fetch, chunk, idx, success_count,
                   total_cidrs, exit_code, attempts, latest, input>>

NextChunks == direct_write_chunks

SpecChunks == InitChunks /\ [][NextChunks]_vars

(***************************************************************************)
(* Vocabulary of the properties, defined apart from the operators above.   *)
(***************************************************************************)
\* ceil(n / CHUNK_SIZE)
CeilChunks(n) == (n + CHUNK_SIZE - 1) \div CHUNK_SIZE

\* a is before b in lexicographic order of code points: they agree on the
\* first k characters, and there a ends or has the smaller character
LexBefore(a, b) ==
    \E k \in 0..Min(Len(a), Len(b)) :
        /\ \A j \in 1..k : a[j] = b[j]
        /\ \/ k = Len(a) /\ k < Len(b)
           \/ k < Len(a) /\ k < Len(b) /\ a[k + 1] < b[k + 1]

\* the entries of list at the 0-based positions [(N-1)*CHUNK_SIZE, N*CHUNK_SIZE)
PositionsOf(list, N) ==
    [ j \in 1..(Min(N * CHUNK_SIZE, Len(list)) - (N - 1) * CHUNK_SIZE)
        |-> list[(N - 1) * CHUNK_SIZE + j] ]

\* the chunk files of provider p numbered 1..k, concatenated in that order
RECURSIVE PartsJoined(_, _, _)
PartsJoined(fs, p, k) ==
    IF k = 0 THEN <<>> ELSE PartsJoined(fs, p, k - 1) \o fs[ChunkFile(p, k)]

\* the chunk files of provider p that exist on the disk
ChunksOnDisk(fs, p) == { path \in DOMAIN fs : path[1] = "chunks" /\ path[2] = p }

RECURSIVE SumSucceeded(_)
SumSucceeded(as) ==
    IF as = <<>> THEN 0
    ELSE (IF Head(as).success THEN Head(as).n ELSE 0) + SumSucceeded(Tail(as))

\* the length the claim gives chunk j of k for a list of n entries
LawLength(n, j, k) ==
    IF j < k THEN CHUNK_SIZE
    ELSE IF n % CHUNK_SIZE = 0 /\ n > 0 THEN CHUNK_SIZE
    ELSE n % CHUNK_SIZE

\* write_chunks returned k for a list of n entries and, when live, wrote
\* exactly the parts 1..k with the lengths of the law
ChunkLaw(n, k) ==
    /\ call.ret = k
    /\ ~call.dry_run =>
          /\ call.wrote = { ChunkFile(call.name, j) : j \in 1..k }
          /\ \A j \in 1..k :
                /\ ChunkFile(call.name, j) \in DOMAIN files
                /\ Len(files[ChunkFile(call.name, j)]) = LawLength(n, j, k)

(***************************************************************************)
(* C1 as stated: a write_chunks call that returns, given a list of n       *)
(* entries, returns ceil(n / CHUNK_SIZE) and (live) writes that many       *)
(* files, all of CHUNK_SIZE entries but the last, which has n mod          *)
(* CHUNK_SIZE (CHUNK_SIZE when n is a positive multiple).                  *)
(***************************************************************************)
C1_ChunkCountLaw_AsStated ==
    (call.op = "write_chunks" /\ ~call.raised) =>
        ChunkLaw(Len(input.feed.cidrs), CeilChunks(Len(input.feed.cidrs)))

(***************************************************************************)
(* C1 amended: the number of chunk files is ceil(n / CHUNK_SIZE) for       *)
(* n >= 1 and 1 for n = 0, where the single chunk is empty; lengths as     *)
(* stated.  In dry-run mode the number is returned and no file is written. *)
(***************************************************************************)
C1_ChunkCountLaw ==
    (call.op = "write_chunks" /\ ~call.raised) =>
        LET n == Len(input.feed.cidrs)
        IN  /\ ChunkLaw(n, IF n = 0 THEN 1 ELSE CeilChunks(n))
            /\ call.dry_run => call.wrote = {} /\ ~call.changed

C1_Witness ==
    /\ call.op = "write_chunks" /\ ~call.raised /\ ~call.dry_run
    /\ Len(input.feed.cidrs) > 2 * CHUNK_SIZE
    /\ Len(input.feed.cidrs) % CHUNK_SIZE # 0
    /\ call.ret = CeilChunks(Len(input.feed.cidrs))

(***************************************************************************)
(* C2: every chunk N a live write_chunks call writes holds exactly the     *)
(* entries at positions [(N-1)*CHUNK_SIZE, N*CHUNK_SIZE) of the list it    *)
(* was given, in that order; when the call returns, the chunks 1..ret      *)
(* joined in ascending number are the list; a list of at most CHUNK_SIZE   *)
(* entries gives the single chunk 1 holding all of it.                     *)
(***************************************************************************)
C2_ChunksAreSlices ==
    (call.op = "write_chunks" /\ ~call.dry_run) =>
        LET list == input.feed.cidrs
        IN  /\ \A path \in call.wrote :
                  /\ path[1] = "chunks" /\ path[2] = call.name /\ path[3] >= 1
                  /\ files[path] = PositionsOf(list, path[3])
            /\ ~call.raised =>
                  /\ call.wrote = { ChunkFile(call.name, j) : j \in 1..call.ret }
                  /\ PartsJoined(files, call.name, call.ret) = list
            /\ (~call.raised /\ Len(list) <= CHUNK_SIZE) =>
                  /\ call.wrote = { ChunkFile(call.name, 1) }
                  /\ files[ChunkFile(call.name, 1)] = list

\* three chunks written from a list that is neither sorted nor duplicate-free
C2_Witness ==
    /\ call.op = "write_chunks" /\ ~call.dry_run /\ ~call.raised
    /\ call.ret > 2
    /\ Cardinality(set(input.feed.cidrs)) < Len(input.feed.cidrs)
    /\ \E i \in 1..(Len(input.feed.cidrs) - 1) :
           LexBefore(input.feed.cidrs[i + 1], input.feed.cidrs[i])

(***************************************************************************)
(* C3: the canonical file fetch_provider writes holds every distinct       *)
(* string of the adapter's output exactly once, no other string, and each  *)
(* entry is before its successor in lexicographic order of code points.    *)
(***************************************************************************)
C3_CanonicalSortedUnique ==
    (/\ call.op = "fetch_provider"
     /\ call.name \in DOMAIN PROVIDERS
     /\ OutputPath(call.name) \in call.wrote) =>
        LET out == files[OutputPath(call.name)]
        IN  /\ set(out) = set(input.feed.cidrs)
            /\ \A i, j \in 1..Len(out) : i # j => out[i] # out[j]
            /\ \A i \in 1..(Len(out) - 1) : LexBefore(out[i], out[i + 1])

\* the adapter delivered a duplicate and a descent, all three strings occur
C3_Witness ==
    /\ call.op = "fetch_provider" /\ call.success /\ ~call.dry_run
    /\ set(input.feed.cidrs) = CIDRS
    /\ \E i \in 1..(Len(input.feed.cidrs) - 1) :
           LexBefore(input.feed.cidrs[i + 1], input.feed.cidrs[i])
    /\ Len(files[OutputPath(call.name)]) = Cardinality(CIDRS)

(***************************************************************************)
(* C4: no call made in dry-run mode opens a file for writing or leaves the *)
(* disk different from what it was, whatever the call's outcome and        *)
(* whether or not chunking is enabled.                                     *)
(***************************************************************************)
C4_DryRunWritesNothing ==
    (call.op = "fetch_provider" /\ call.dry_run) =>
        call.wrote = {} /\ ~call.changed

\* a dry run with chunking, on a disk that holds files, with a provider that
\* succeeded after one that failed
C4_Witness ==
    /\ pc = "exited" /\ args.dry_run /\ chunk
    /\ DOMAIN files # {}
    /\ Len(attempts) > 1
    /\ ~attempts[1].success
    /\ attempts[Len(attempts)].success
    /\ attempts[Len(attempts)].n > CHUNK_SIZE

(***************************************************************************)
(* C5: when the adapter returns zero entries, fetch_provider returns       *)
(* (False, 0) and writes no file, in dry-run and in live mode.             *)
(***************************************************************************)
C5_EmptyIsFailure ==
    (/\ call.op = "fetch_provider"
     /\ attempts # <<>>
     /\ attempts[Len(attempts)].kind = "ok"
     /\ attempts[Len(attempts)].n = 0) =>
        /\ ~call.success
        /\ call.ret = 0
        /\ call.wrote = {}
        /\ ~call.changed

C5_Witness ==
    /\ call.op = "fetch_provider" /\ ~call.dry_run /\ chunk
    /\ attempts # <<>>
    /\ attempts[Len(attempts)].kind = "ok"
    /\ attempts[Len(attempts)].n = 0
    /\ call.reason = "empty"

(***************************************************************************)
(* C6 as stated: a fetch_provider call that wrote the canonical file or a  *)
(* chunk file returns success.                                             *)
(***************************************************************************)
C6_WritesOnlyOnSuccess ==
    (call.op = "fetch_provider" /\ (call.wrote # {} \/ call.changed)) => call.success

(***************************************************************************)
(* C7: the providers attempted so far are the requested list up to the     *)
(* loop's position, in order and one call each; at exit the whole list     *)
(* has been attempted; and an invocation in its loop reaches its exit.     *)
(***************************************************************************)
C7_Sequencing ==
    /\ Len(attempts) <= Len(providers_to_fetch)
    /\ \A i \in 1..Len(attempts) : attempts[i].name = providers_to_fetch[i]
    /\ pc = "loop" => Len(attempts) = idx - 1
    /\ pc = "exited" => Len(attempts) = Len(providers_to_fetch)

C7_SoftFail == []C7_Sequencing /\ ((pc = "loop") ~> (pc = "exited"))

\* the first provider failed on a write, the second was attempted and succeeded
C7_Witness ==
    /\ pc = "exited"
    /\ Len(attempts) > 1
    /\ attempts[1].reason = "OSError"
    /\ attempts[Len(attempts)].success

(***************************************************************************)
(* C8: at the exit of a run that is not a listing, the status is 0 if      *)
(* every requested provider's call succeeded and 1 otherwise, and the      *)
(* total is the sum, over the calls that succeeded, of the number of       *)
(* distinct entries the adapter delivered.                                 *)
(***************************************************************************)
C8_ExitAndTotal ==
    (pc = "exited" /\ ~args.list) =>
        /\ exit_code = IF \A i \in 1..Len(providers_to_fetch) :
                              i \in DOMAIN attempts /\ attempts[i].success
                       THEN 0 ELSE 1
        /\ total_cidrs = SumSucceeded(attempts)

\* two providers requested, the first succeeded and the last failed
C8_Witness ==
    /\ pc = "exited" /\ ~args.list
    /\ Len(attempts) > 1
    /\ attempts[1].success /\ ~attempts[Len(attempts)].success
    /\ exit_code = 1
    /\ total_cidrs > 1

(***************************************************************************)
(* C9 as stated: on the same name, chunk flag and fetched input, the       *)
(* dry-run call and the live call return the same (success, count).        *)
(***************************************************************************)
C9_DryAgreesWithLive_AsStated ==
    \A i, j \in DOMAIN attempts :
        (attempts[i].dry_run /\ ~attempts[j].dry_run) =>
            /\ attempts[i].success = attempts[j].success
            /\ attempts[i].count = attempts[j].count

(***************************************************************************)
(* C9 amended: they return the same pair unless a write of the live call   *)
(* fails; then the live call returns (False, 0) and the dry-run call       *)
(* still returns (True, number of distinct entries).                       *)
(***************************************************************************)
C9_DryAgreesWithLive ==
    \A i, j \in DOMAIN attempts :
        (attempts[i].dry_run /\ ~attempts[j].dry_run) =>
            IF attempts[j].reason = "OSError"
            THEN /\ ~attempts[j].success /\ attempts[j].count = 0
                 /\ attempts[i].success /\ attempts[i].count = attempts[i].n
            ELSE /\ attempts[i].success = attempts[j].success
                 /\ attempts[i].count = attempts[j].count

C9_Witness ==
    /\ Len(attempts) > 1
    /\ attempts[1].dry_run /\ ~attempts[Len(attempts)].dry_run
    /\ attempts[1].success /\ attempts[Len(attempts)].success
    /\ attempts[1].count > CHUNK_SIZE
    /\ input.chunk

(***************************************************************************)
(* C10 as stated: when the latest call for a provider succeeded live with  *)
(* chunking, the chunk files of that provider on the disk are exactly the  *)
(* parts 1..k of its canonical file, each the slice at its positions.      *)
(***************************************************************************)
C10_NoStaleChunks ==
    \A p \in DOMAIN PROVIDERS :
        latest[p] = "chunked" =>
            LET canon == files[OutputPath(p)]
                k == IF Len(canon) = 0 THEN 1 ELSE CeilChunks(Len(canon))
            IN  /\ ChunksOnDisk(files, p) = { ChunkFile(p, j) : j \in 1..k }
                /\ \A j \in 1..k : files[ChunkFile(p, j)] = PositionsOf(canon, j)

====
